---- MODULE Spec2Model ----
(***************************************************************************)
(* pint.unit.Unit: the Unit value type bound to a registry, its lazily     *)
(* cached dimensionality, copies, algebra, comparisons, compatibility      *)
(* test, array interception and conversion helpers.                        *)
(*                                                                         *)
(* The heap `units` holds the Unit instances built so far.  A              *)
(* UnitsContainer is a total map from unit names to exponents (exponent 0  *)
(* = name absent; the container prunes zero exponents itself).  A          *)
(* container OBJECT is named by `cid`: two Units with the same cid hold    *)
(* the very same container object.  `last` records what the most recent    *)
(* call returned or raised and which collaborators it invoked.             *)
(***************************************************************************)
EXTENDS Integers, Sequences, FiniteSets, TLC

VARIABLES units, dimtab, active_ctx, hist, last

vars == <<units, dimtab, active_ctx, hist, last>>

----------------------------------------------------------------------------
(* Bounds *)

MaxUnits == 2

MaxCtx == 1

----------------------------------------------------------------------------
(* Values *)

UnitNames == {"meter", "foot", "second"}

Dimensions == {"[length]", "[time]"}

\* The registries; build_unit_class stamps one Unit subclass per registry.
Registries == {"ureg", "ureg2"}

build_unit_class(registry) == registry

UC(m, f, s) == [n \in UnitNames |->
                  IF n = "meter" THEN m ELSE IF n = "foot" THEN f ELSE s]

EmptyUC == UC(0, 0, 0)

NoDim == [d \in Dimensions |-> 0]

\* The containers client code builds Units from.
SampleContainers ==
  {EmptyUC, UC(1, 0, 0), UC(0, 1, 0), UC(0, 0, 1), UC(1, -1, 0), UC(1, 0, -1)}

\* bool(container): a container is truthy iff it has an entry.
Truthy(c) == \E k \in DOMAIN c : c[k] # 0

RECURSIVE SumOver(_, _)
SumOver(S, f) ==
  IF S = {} THEN 0
  ELSE LET x == CHOOSE y \in S : TRUE IN f[x] + SumOver(S \ {x}, f)

\* registry._get_dimensionality(container) under the dimension table `tab`:
\* every unit name contributes its exponent to the dimension it is defined in.
GetDimensionality(tab, c) ==
  [d \in Dimensions |-> SumOver({n \in UnitNames : tab[n] = d}, c)]

DefaultTable == [n \in UnitNames |-> IF n = "second" THEN "[time]" ELSE "[length]"]

----------------------------------------------------------------------------
(* Operands handed to the methods *)

\* A Quantity: magnitude mag.n / mag.d, expressed in `units`; when it is the
\* result of a conversion, `from` names the units the magnitude came from
\* (the conversion factor itself belongs to the registry).
Quantity(cls, n, d, c) ==
  [cls |-> cls, n |-> n, d |-> d, units |-> c, from |-> c]

NoQuantity == Quantity("none", 0, 1, EmptyUC)

Arg(kind, id, q, text) == [kind |-> kind, id |-> id, q |-> q, text |-> text]

NoArg == Arg("none", 0, NoQuantity, "")

UnitArg(j) == Arg("Unit", j, NoQuantity, "")

QuantityArg(q) == Arg("Quantity", 0, q, "")

\* A plain number n.
NumArg(n) == Arg("num", n, NoQuantity, "")

StrArg(t) == Arg("str", 0, NoQuantity, t)

\* A raw UnitsContainer (carried in q.units).
ContainerArg(c) == Arg("UnitsContainer", 0, Quantity("none", 0, 1, c), "")

DictArg(c) == Arg("dict", 0, Quantity("none", 0, 1, c), "")

\* Any other object (None, a list, ...).
ObjectArg == Arg("object", 0, NoQuantity, "")

Texts == {"", "meter", "second", "bogus"}

\* registry.parse_units(text): the container of the named unit, "" being
\* the dimensionless unit; an unknown name is an error of the registry.
ParseOk(t) == t \in {"", "meter", "foot", "second"}

ParseUnits(t) ==
  IF t = "meter" THEN UC(1, 0, 0)
  ELSE IF t = "foot" THEN UC(0, 1, 0)
  ELSE IF t = "second" THEN UC(0, 0, 1)
  ELSE EmptyUC

----------------------------------------------------------------------------
(* The last call's outcome *)

NoUnit ==
  [cls |-> "none", cid |-> 0, units |-> EmptyUC, used |-> FALSE,
   hasdim |-> FALSE, dim |-> NoDim]

\* op/self/arg: the call; ret: what it returned ("raise:X" when it raised X);
\* new: heap index of a Unit it created; runit, q, dim: the returned Unit,
\* Quantity or dimensionality; regcalls: invocations of
\* registry._get_dimensionality; cached: whether the cache was already set;
\* qctor: Quantity objects constructed; conv: conversions attempted;
\* deleg: the collaborator call the result was delegated to; ufunc, method,
\* inputs, kwargs: the arguments of __array_ufunc__; calls: the redispatched
\* calls it made; answer: what the collaborator a comparison was delegated to
\* answered.
NoLast ==
  [op |-> "none", self |-> 0, arg |-> NoArg, ret |-> "none", new |-> 0,
   runit |-> NoUnit, q |-> NoQuantity, q2 |-> NoQuantity,
   dim |-> NoDim, regcalls |-> 0, cached |-> FALSE,
   qctor |-> 0, conv |-> 0, deleg |-> "none", strict |-> FALSE,
   ctxs |-> <<>>, hash |-> 0,
   ufunc |-> "none", method |-> "none", inputs |-> <<>>, kwargs |-> <<>>,
   calls |-> <<>>, answer |-> "none"]

NoHist == [calls |-> 0, reads |-> 0, first |-> NoDim]

\* The program is synchronous: a call is made when the previous one has
\* returned and its result has been taken.
Idle == last.op = "none"

Return ==
  /\ ~Idle
  /\ last' = NoLast
  /\ UNCHANGED <<units, dimtab, active_ctx, hist>>

----------------------------------------------------------------------------
(* Unit.__init__ *)

\* A Unit just built by __init__ around the container object `cid` holding
\* `c`: no cached dimensionality, debug flag cleared.
InitUnit(cls, cid, c) ==
  [cls |-> cls, cid |-> cid, units |-> c, used |-> FALSE,
   hasdim |-> FALSE, dim |-> NoDim]

\* The identity of a container object created while building unit number i.
FreshCid(i) == i

\* The instance __init__ builds as heap object i from its argument.
InitFromUnit(cls, i, arg) ==
  InitUnit(cls, units[arg.id].cid, units[arg.id].units)

InitResult(cls, i, arg) ==
  IF arg.kind = "UnitsContainer" THEN InitUnit(cls, FreshCid(i), arg.q.units)
  ELSE IF arg.kind = "str" THEN InitUnit(cls, FreshCid(i), ParseUnits(arg.text))
  ELSE InitFromUnit(cls, i, arg)

InitRaises(arg) ==
  IF arg.kind \in {"UnitsContainer", "Unit"} THEN "none"
  ELSE IF arg.kind = "str"
    THEN IF ParseOk(arg.text) THEN "none" ELSE "raise:UndefinedUnitError"
  ELSE "raise:TypeError"

\* cls(arg): Unit.__init__ on a new instance of the registry's class cls.
UnitInit(cls, arg) ==
  /\ Idle
  /\ Len(units) < MaxUnits
  /\ arg.kind = "Unit" => arg.id \in 1..Len(units)
  /\ LET i == Len(units) + 1 IN
       IF InitRaises(arg) = "none"
       THEN /\ units' = Append(units, InitResult(cls, i, arg))
            /\ hist' = Append(hist, NoHist)
            /\ last' = [NoLast EXCEPT !.op = "__init__", !.arg = arg,
                          !.new = i, !.ret = "Unit"]
       ELSE /\ last' = [NoLast EXCEPT !.op = "__init__", !.arg = arg,
                          !.ret = InitRaises(arg)]
            /\ UNCHANGED <<units, hist>>
  /\ UNCHANGED <<dimtab, active_ctx>>

----------------------------------------------------------------------------
(* Unit.__copy__ / Unit.__deepcopy__ / debug_used *)

CopyBuggyDropsFlag(u) == InitUnit(u.cls, u.cid, u.units)

\* ret = self.__class__(self._units); ret.__used = self.__used
CopyResult(u) == [InitUnit(u.cls, u.cid, u.units) EXCEPT !.used = u.used]

\* ret = self.__class__(copy.deepcopy(self._units, memo)); same flag.
DeepCopyResult(u, i) ==
  [InitUnit(u.cls, FreshCid(i), u.units) EXCEPT !.used = u.used]

Copy(s) ==
  /\ Idle
  /\ s \in 1..Len(units)
  /\ Len(units) < MaxUnits
  /\ units' = Append(units, CopyResult(units[s]))
  /\ hist' = Append(hist, NoHist)
  /\ last' = [NoLast EXCEPT !.op = "__copy__", !.self = s,
                !.new = Len(units) + 1, !.ret = "Unit"]
  /\ UNCHANGED <<dimtab, active_ctx>>

DeepCopy(s) ==
  /\ Idle
  /\ s \in 1..Len(units)
  /\ Len(units) < MaxUnits
  /\ units' = Append(units, DeepCopyResult(units[s], Len(units) + 1))
  /\ hist' = Append(hist, NoHist)
  /\ last' = [NoLast EXCEPT !.op = "__deepcopy__", !.self = s,
                !.new = Len(units) + 1, !.ret = "Unit"]
  /\ UNCHANGED <<dimtab, active_ctx>>

\* A collaborator marks the unit as used, for diagnostics.
SetUsed(i) ==
  /\ Idle
  /\ i \in 1..Len(units)
  /\ ~units[i].used
  /\ units' = [units EXCEPT ![i].used = TRUE]
  /\ last' = [NoLast EXCEPT !.op = "set_used", !.self = i]
  /\ UNCHANGED <<dimtab, active_ctx, hist>>

----------------------------------------------------------------------------
(* Unit.dimensionality / Unit.dimensionless *)

\* The lazily cached property: the instance after the read.  The cache slot
\* is filled by the first read and served afterwards.
DimensionalityBuggyNoCache(u, tab) ==
  [u EXCEPT !.dim = GetDimensionality(tab, u.units)]

DimensionalityRead(u, tab) ==
  IF u.hasdim THEN u
  ELSE [u EXCEPT !.hasdim = TRUE, !.dim = GetDimensionality(tab, u.units)]

\* Number of registry invocations the read makes.
DimensionalityCalls(u) == IF u.hasdim THEN 0 ELSE 1

\* The history of instance i after a read that left it as v.
Noted(h, u, v) ==
  [calls |-> h.calls + DimensionalityCalls(u),
   reads |-> IF h.reads = 0 THEN 1 ELSE h.reads,
   first |-> IF h.reads = 0 THEN v.dim ELSE h.first]

DimensionlessBuggyNoNot(dim) == Truthy(dim)

\* not bool(self.dimensionality)
DimensionlessResult(dim) == ~Truthy(dim)

Bool(b) == IF b THEN "True" ELSE "False"

Dimensionality(i) ==
  /\ Idle
  /\ i \in 1..Len(units)
  /\ LET u == units[i]
         v == DimensionalityRead(u, dimtab[u.cls])
     IN /\ units' = [units EXCEPT ![i] = v]
        /\ hist' = [hist EXCEPT ![i] = Noted(@, u, v)]
        /\ last' = [NoLast EXCEPT !.op = "dimensionality", !.self = i,
                      !.ret = "dim", !.dim = v.dim,
                      !.regcalls = DimensionalityCalls(u),
                      !.cached = u.hasdim]
  /\ UNCHANGED <<dimtab, active_ctx>>

Dimensionless(i) ==
  /\ Idle
  /\ i \in 1..Len(units)
  /\ LET u == units[i]
         v == DimensionalityRead(u, dimtab[u.cls])
     IN /\ units' = [units EXCEPT ![i] = v]
        /\ hist' = [hist EXCEPT ![i] = Noted(@, u, v)]
        /\ last' = [NoLast EXCEPT !.op = "dimensionless", !.self = i,
                      !.ret = Bool(DimensionlessResult(v.dim)),
                      !.dim = v.dim,
                      !.regcalls = DimensionalityCalls(u),
                      !.cached = u.hasdim]
  /\ UNCHANGED <<dimtab, active_ctx>>

----------------------------------------------------------------------------
(* Collaborators: UnitsContainer algebra, SharedRegistryObject._check,      *)
(* Quantity arithmetic and conversion                                      *)

\* container * container: exponents add.
UCMul(a, b) == [n \in UnitNames |-> a[n] + b[n]]

\* container / container: exponents subtract.
UCDiv(a, b) == [n \in UnitNames |-> a[n] - b[n]]

\* hash(container): a function of the container's value (not injective).
UCHash(c) == SumOver(UnitNames, c)

\* self._check(other): other is a Unit or Quantity of self's registry.
Check(u, arg) ==
  \/ arg.kind = "Unit" /\ units[arg.id].cls = u.cls
  \/ arg.kind = "Quantity" /\ arg.q.cls = u.cls

\* Operands of another registry are turned away by _check itself; the
\* methods that call it are modelled for the operands it lets through.
Admitted(u, arg) ==
  /\ arg.kind = "Unit" => arg.id \in 1..Len(units) /\ units[arg.id].cls = u.cls
  /\ arg.kind = "Quantity" => arg.q.cls = u.cls

\* isinstance(other, NUMERIC_TYPES) / isinstance(other, Number)
IsNumeric(arg) == arg.kind = "num"

\* quantity * number and quantity * quantity.
QuantityMul(q, arg) ==
  IF arg.kind = "num" THEN [q EXCEPT !.n = q.n * arg.id]
  ELSE Quantity(q.cls, q.n * arg.q.n, q.d * arg.q.d, UCMul(q.units, arg.q.units))

\* The container a conversion target stands for.
TargetOk(arg) ==
  \/ arg.kind \in {"Unit", "Quantity", "UnitsContainer", "dict"}
  \/ arg.kind = "str" /\ ParseOk(arg.text)

TargetUnits(arg) ==
  IF arg.kind = "Unit" THEN units[arg.id].units
  ELSE IF arg.kind = "str" THEN ParseUnits(arg.text)
  ELSE arg.q.units

\* The contexts the registry knows: "sp" lets lengths and times convert
\* into each other.
Contexts == {"sp"}

Range(seq) == {seq[k] : k \in DOMAIN seq}

Bridged(dim) == SumOver(Dimensions, dim)

Convertible(tab, a, b, ctxs) ==
  \/ GetDimensionality(tab, a) = GetDimensionality(tab, b)
  \/ /\ "sp" \in ctxs
     /\ Bridged(GetDimensionality(tab, a)) = Bridged(GetDimensionality(tab, b))

\* quantity.to(other, *contexts): "ok", or the error it raises.  The active
\* contexts of the registry apply as well as the explicit ones.
ToOutcome(r, q, arg, ctxs) ==
  IF ~(Range(ctxs) \subseteq Contexts) THEN "raise:KeyError"
  ELSE IF arg.kind = "str" /\ ~ParseOk(arg.text) THEN "raise:UndefinedUnitError"
  ELSE IF ~TargetOk(arg) THEN "raise:TypeError"
  ELSE IF Convertible(dimtab[r], q.units, TargetUnits(arg),
                      Range(ctxs) \cup Range(active_ctx[r]))
    THEN "ok"
  ELSE "raise:DimensionalityError"

\* The converted quantity: the magnitude of q carried from q's units.
ToResult(q, arg) == [q EXCEPT !.units = TargetUnits(arg), !.from = q.units]

----------------------------------------------------------------------------
(* Unit.__mul__ / __rmul__ / __truediv__ / __rtruediv__ *)

\* A Unit returned to the caller; its container object is a new one (cid 0:
\* held by no instance of the heap).
Returned(cls, c) == InitUnit(cls, 0, c)

Outcome(ret) == [NoLast EXCEPT !.ret = ret]

MulBuggySubtracts(u, arg) ==
  [Outcome("Unit") EXCEPT !.runit = Returned(u.cls, UCDiv(u.units, units[arg.id].units))]

\* self.__class__(self._units * other._units)
MulUnits(u, arg) ==
  [Outcome("Unit") EXCEPT !.runit = Returned(u.cls, UCMul(u.units, units[arg.id].units))]

\* self._REGISTRY.Quantity(1, self._units) * other, left to Quantity.__mul__.
MulByQuantity(u, arg) ==
  IF arg.kind \in {"num", "Quantity"}
  THEN [Outcome("Quantity") EXCEPT
          !.q = QuantityMul(Quantity(u.cls, 1, 1, u.units), arg),
          !.qctor = 1, !.deleg = "Quantity.__mul__"]
  ELSE [Outcome("delegated") EXCEPT
          !.q = Quantity(u.cls, 1, 1, u.units),
          !.qctor = 1, !.deleg = "Quantity.__mul__"]

MulOutcome(u, arg) ==
  IF Check(u, arg)
  THEN IF arg.kind = "Unit" THEN MulUnits(u, arg) ELSE MulByQuantity(u, arg)
  ELSE IF IsNumeric(arg) /\ arg.id = 1
    THEN [Outcome("Quantity") EXCEPT
            !.q = Quantity(u.cls, arg.id, 1, u.units), !.qctor = 1]
  ELSE MulByQuantity(u, arg)

\* self.__class__(self._units / other._units)
TrueDivUnits(u, arg) ==
  [Outcome("Unit") EXCEPT !.runit = Returned(u.cls, UCDiv(u.units, units[arg.id].units))]

TrueDivOutcome(u, arg) ==
  IF Check(u, arg)
  THEN IF arg.kind = "Unit" THEN TrueDivUnits(u, arg)
       ELSE [Outcome("delegated") EXCEPT
               !.q = Quantity(u.cls, 1, 1, u.units), !.q2 = arg.q,
               !.qctor = 1, !.deleg = "Quantity.__truediv__"]
  ELSE IF ~IsNumeric(arg) THEN Outcome("raise:TypeError")
  ELSE IF arg.id = 0 THEN Outcome("raise:ZeroDivisionError")
  ELSE [Outcome("Quantity") EXCEPT
          !.q = Quantity(u.cls, 1, arg.id, u.units), !.qctor = 1]

RTrueDivOutcome(u, arg) ==
  IF IsNumeric(arg)
  THEN [Outcome("Quantity") EXCEPT
          !.q = Quantity(u.cls, arg.id, 1, UCDiv(EmptyUC, u.units)), !.qctor = 1]
  ELSE IF arg.kind = "UnitsContainer"
    THEN [Outcome("Unit") EXCEPT !.runit = Returned(u.cls, UCDiv(arg.q.units, u.units))]
  ELSE Outcome("NotImplemented")

\* A call that leaves every instance and the registry as they are.
Pure(i, arg, op, out) ==
  /\ Idle
  /\ i \in 1..Len(units)
  /\ Admitted(units[i], arg)
  /\ last' = [out EXCEPT !.op = op, !.self = i, !.arg = arg]
  /\ UNCHANGED <<units, dimtab, active_ctx, hist>>

Mul(i, arg) ==
  /\ i \in 1..Len(units)
  /\ Pure(i, arg, "__mul__", MulOutcome(units[i], arg))

\* (1 / container is the container's own affair: not an operand here.)
TrueDiv(i, arg) ==
  /\ i \in 1..Len(units)
  /\ arg.kind # "UnitsContainer"
  /\ Pure(i, arg, "__truediv__", TrueDivOutcome(units[i], arg))

RTrueDiv(i, arg) ==
  /\ i \in 1..Len(units)
  /\ arg.kind \notin {"Unit", "Quantity"}
  /\ Pure(i, arg, "__rtruediv__", RTrueDivOutcome(units[i], arg))

----------------------------------------------------------------------------
(* Unit.__hash__ / __eq__ / __ne__ *)

UnitHash(u) == UCHash(u.units)

EqBuggyIdentity(u, arg) == u.cid = units[arg.id].cid

\* self._units == other._units
EqUnits(u, arg) == u.units = units[arg.id].units

\* answer: what a comparison left to a collaborator (Quantity.__eq__, or
\* the container's comparison with a foreign object) answers.
EqOutcome(u, arg, answer) ==
  IF Check(u, arg)
  THEN IF arg.kind = "Unit" THEN Outcome(Bool(EqUnits(u, arg)))
       ELSE [Outcome(Bool(answer)) EXCEPT
               !.q = Quantity(u.cls, 1, 1, u.units), !.answer = Bool(answer),
               !.qctor = 1, !.deleg = "Quantity.__eq__"]
  ELSE IF IsNumeric(arg)
    THEN [Outcome(Bool(answer)) EXCEPT
            !.q = Quantity(u.cls, 1, 1, u.units), !.answer = Bool(answer),
            !.qctor = 1, !.deleg = "Quantity.__eq__"]
  ELSE IF arg.kind = "UnitsContainer" THEN Outcome(Bool(u.units = arg.q.units))
  ELSE [Outcome(Bool(answer)) EXCEPT
          !.answer = Bool(answer), !.deleg = "UnitsContainer.__eq__"]

Negated(out) == [out EXCEPT !.ret = IF @ = "True" THEN "False" ELSE "True"]

\* Whether the answer of a collaborator is asked for at all.
Delegates(u, arg) ==
  ~(Check(u, arg) /\ arg.kind = "Unit") /\ ~(~Check(u, arg) /\ arg.kind = "UnitsContainer")

Eq(i, arg, answer) ==
  /\ i \in 1..Len(units)
  /\ Admitted(units[i], arg)
  /\ Delegates(units[i], arg) \/ answer
  /\ Pure(i, arg, "__eq__", EqOutcome(units[i], arg, answer))

Ne(i, arg, answer) ==
  /\ i \in 1..Len(units)
  /\ Admitted(units[i], arg)
  /\ Delegates(units[i], arg) \/ answer
  /\ Pure(i, arg, "__ne__", Negated(EqOutcome(units[i], arg, answer)))

Hash(i) ==
  /\ i \in 1..Len(units)
  /\ Pure(i, NoArg, "__hash__", [Outcome("int") EXCEPT !.hash = UnitHash(units[i])])

----------------------------------------------------------------------------
(* Unit.compare and the ordering operators *)

Orderings == {"__lt__", "__le__", "__ge__", "__gt__"}

\* What a comparison delegated to Quantity.compare yields.
CompareAnswers == {"True", "False", "raise:DimensionalityError", "raise:ValueError"}

CompareBuggyRawOther(u, arg, answer) ==
  IF IsNumeric(arg) \/ arg.kind \in {"Unit", "UnitsContainer", "dict"}
  THEN [Outcome(answer) EXCEPT
          !.q = Quantity(u.cls, 1, 1, u.units), !.answer = answer,
          !.qctor = 1, !.deleg = "Quantity.compare"]
  ELSE [Outcome("NotImplemented") EXCEPT
          !.q = Quantity(u.cls, 1, 1, u.units), !.qctor = 1]

\* self_q = Quantity(1, self), compared with the number, or with
\* Quantity(1, other) for a Unit, a container or a dict.
CompareOutcome(u, arg, answer) ==
  IF IsNumeric(arg)
  THEN [Outcome(answer) EXCEPT
          !.q = Quantity(u.cls, 1, 1, u.units), !.answer = answer,
          !.qctor = 1, !.deleg = "Quantity.compare"]
  ELSE IF arg.kind \in {"Unit", "UnitsContainer", "dict"}
    THEN [Outcome(answer) EXCEPT
            !.q = Quantity(u.cls, 1, 1, u.units),
            !.q2 = Quantity(u.cls, 1, 1, TargetUnits(arg)),
            !.answer = answer,
            !.qctor = 2, !.deleg = "Quantity.compare"]
  ELSE [Outcome("NotImplemented") EXCEPT
          !.q = Quantity(u.cls, 1, 1, u.units), !.qctor = 1]

Compare(i, arg, op, answer) ==
  /\ Idle
  /\ i \in 1..Len(units)
  /\ arg.kind = "Unit" => arg.id \in 1..Len(units)
  /\ LET out == CompareOutcome(units[i], arg, answer) IN
       /\ out.deleg = "none" => answer = "True"
       /\ last' = [out EXCEPT !.op = op, !.self = i, !.arg = arg]
  /\ UNCHANGED <<units, dimtab, active_ctx, hist>>

----------------------------------------------------------------------------
(* Unit.is_compatible_with *)

CompatibleBuggyCatchAll(u, arg, ctxs) ==
  LET one == MulOutcome(u, NumArg(1))
      out == ToOutcome(u.cls, one.q, arg, ctxs)
  IN [Outcome(IF out = "ok" THEN "True" ELSE "False")
        EXCEPT !.q = one.q, !.qctor = one.qctor, !.conv = 1,
               !.deleg = "Quantity.to"]

\* (1 * self).to(other, *contexts): the conversion decides.
CompatibleByConversion(u, arg, ctxs) ==
  LET one == MulOutcome(u, NumArg(1))
      out == ToOutcome(u.cls, one.q, arg, ctxs)
  IN [Outcome(IF out = "ok" THEN "True"
              ELSE IF out = "raise:DimensionalityError" THEN "False"
              ELSE out)
        EXCEPT !.q = one.q, !.qctor = one.qctor, !.conv = 1,
               !.deleg = "Quantity.to"]

\* if contexts or self._REGISTRY._active_ctx
UsesConversion(u, ctxs) == Len(ctxs) > 0 \/ Len(active_ctx[u.cls]) > 0

\* The heap after self (and then other, when it is a Unit) had its
\* dimensionality read.
AfterReads(i, arg) ==
  LET u1 == [units EXCEPT ![i] = DimensionalityRead(@, dimtab[@.cls])]
  IN IF arg.kind = "Unit"
     THEN [u1 EXCEPT ![arg.id] = DimensionalityRead(@, dimtab[@.cls])]
     ELSE u1

HistAfterReads(i, arg) ==
  LET u1 == [units EXCEPT ![i] = DimensionalityRead(@, dimtab[@.cls])]
      h1 == [hist EXCEPT ![i] = Noted(@, units[i], u1[i])]
  IN IF arg.kind = "Unit"
     THEN [h1 EXCEPT ![arg.id] =
             Noted(@, u1[arg.id], DimensionalityRead(u1[arg.id], dimtab[u1[arg.id].cls]))]
     ELSE h1

\* The dimensionality `other` (a Unit or a Quantity) reports, the reads
\* above having been made.
OtherDimensionality(after, arg) ==
  IF arg.kind = "Unit" THEN after[arg.id].dim
  ELSE GetDimensionality(dimtab[arg.q.cls], arg.q.units)

CompatibleBuggyPlainNever(i, after, arg) ==
  IF arg.kind \in {"Quantity", "Unit"}
  THEN Outcome(Bool(after[i].dim = OtherDimensionality(after, arg)))
  ELSE IF arg.kind = "str"
    THEN IF ParseOk(arg.text)
         THEN Outcome(Bool(after[i].dim =
                GetDimensionality(dimtab[after[i].cls], ParseUnits(arg.text))))
         ELSE Outcome("raise:UndefinedUnitError")
  ELSE Outcome("False")

CompatibleByDimensionality(i, after, arg) ==
  IF arg.kind \in {"Quantity", "Unit"}
  THEN Outcome(Bool(after[i].dim = OtherDimensionality(after, arg)))
  ELSE IF arg.kind = "str"
    THEN IF ParseOk(arg.text)
         THEN Outcome(Bool(after[i].dim =
                GetDimensionality(dimtab[after[i].cls], ParseUnits(arg.text))))
         ELSE Outcome("raise:UndefinedUnitError")
  ELSE Outcome(Bool(DimensionlessResult(after[i].dim)))

IsCompatibleWith(i, arg, ctxs) ==
  /\ Idle
  /\ i \in 1..Len(units)
  /\ arg.kind = "Unit" => arg.id \in 1..Len(units)
  /\ LET u == units[i] IN
       IF UsesConversion(u, ctxs)
       THEN /\ last' = [CompatibleByConversion(u, arg, ctxs) EXCEPT
                          !.op = "is_compatible_with", !.self = i,
                          !.arg = arg, !.ctxs = ctxs]
            /\ UNCHANGED <<units, hist>>
       ELSE /\ units' = AfterReads(i, arg)
            /\ hist' = HistAfterReads(i, arg)
            /\ last' = [CompatibleByDimensionality(i, AfterReads(i, arg), arg) EXCEPT
                          !.op = "is_compatible_with", !.self = i,
                          !.arg = arg, !.ctxs = ctxs,
                          !.dim = AfterReads(i, arg)[i].dim]
  /\ UNCHANGED <<dimtab, active_ctx>>

----------------------------------------------------------------------------
(* Unit.from_ / Unit.m_from *)

FromBuggyLenient(u, arg, strict) == MulOutcome(u, arg)

\* The branch for a value that is not quantity-like.
FromPlain(u, arg, strict) ==
  IF strict THEN Outcome("raise:ValueError") ELSE MulOutcome(u, arg)

FromOutcome(i, arg, strict) ==
  LET u == units[i] IN
  IF Check(u, arg)
  THEN LET value == IF arg.kind = "Quantity" THEN arg.q
                    ELSE Quantity(u.cls, 1, 1, units[arg.id].units)
           out == ToOutcome(u.cls, value, UnitArg(i), <<>>)
       IN [Outcome(IF out = "ok" THEN "Quantity" ELSE out) EXCEPT
             !.q = IF out = "ok" THEN ToResult(value, UnitArg(i)) ELSE NoQuantity,
             !.q2 = value,
             !.qctor = IF arg.kind = "Quantity" THEN 0 ELSE 1,
             !.conv = 1, !.deleg = "Quantity.to"]
  ELSE FromPlain(u, arg, strict)

\* from_(...).magnitude
Magnitude(out) ==
  IF out.ret = "Quantity" THEN [out EXCEPT !.ret = "magnitude"] ELSE out

From_(i, arg, strict) ==
  /\ i \in 1..Len(units)
  /\ Pure(i, arg, "from_", [FromOutcome(i, arg, strict) EXCEPT !.strict = strict])

MFrom(i, arg, strict) ==
  /\ i \in 1..Len(units)
  /\ Pure(i, arg, "m_from",
          [Magnitude(FromOutcome(i, arg, strict)) EXCEPT !.strict = strict])

----------------------------------------------------------------------------
(* Unit.__array_ufunc__ *)

\* Operands of an elementwise operation: self, another Unit, a number, an
\* array, and an array of an upcast type.
ArrayArg == Arg("ndarray", 0, NoQuantity, "")

UpcastArg == Arg("DataArray", 0, NoQuantity, "")

\* hasattr(arg, "__array_ufunc__")
HasArrayUfunc(arg) == arg.kind \in {"Unit", "Quantity", "ndarray", "DataArray"}

\* compat.is_upcast_type(type(arg))
IsUpcastType(arg) == arg.kind = "DataArray"

Ufuncs == {"multiply", "true_divide", "divide", "floor_divide", "add"}

Methods == {"__call__", "reduce"}

HandledBuggyAdd == {"true_divide", "divide", "floor_divide", "multiply", "add"}

Handled == {"true_divide", "divide", "floor_divide", "multiply"}

\* Quantity(1, self._units) if arg is self else arg
Substituted(i, inputs) ==
  [k \in DOMAIN inputs |->
     IF inputs[k] = UnitArg(i)
     THEN QuantityArg(Quantity(units[i].cls, 1, 1, units[i].units))
     ELSE inputs[k]]

Occurrences(i, inputs) == Cardinality({k \in DOMAIN inputs : inputs[k] = UnitArg(i)})

Declines(ufunc, method, inputs, kwargs) ==
  \/ method # "__call__"
  \/ \E arg \in Range(inputs) \cup Range(kwargs) : HasArrayUfunc(arg) /\ IsUpcastType(arg)
  \/ ufunc \notin Handled

ArrayUfunc(i, ufunc, method, inputs, kwargs) ==
  /\ Idle
  /\ i \in 1..Len(units)
  /\ \A arg \in Range(inputs) \cup Range(kwargs) :
       arg.kind = "Unit" => arg.id \in 1..Len(units)
  /\ last' = [NoLast EXCEPT
                !.op = "__array_ufunc__", !.self = i,
                !.ufunc = ufunc, !.method = method,
                !.inputs = inputs, !.kwargs = kwargs,
                !.ret = IF Declines(ufunc, method, inputs, kwargs)
                        THEN "NotImplemented" ELSE "dispatched",
                !.calls = IF Declines(ufunc, method, inputs, kwargs) THEN <<>>
                          ELSE <<[ufunc |-> ufunc,
                                  inputs |-> Substituted(i, inputs),
                                  kwargs |-> kwargs]>>,
                !.qctor = IF Declines(ufunc, method, inputs, kwargs) THEN 0
                          ELSE Occurrences(i, inputs)]
  /\ UNCHANGED <<units, dimtab, active_ctx, hist>>

----------------------------------------------------------------------------
(* The registry (collaborator) *)

\* The unit names whose definition the registry changes, and the change: the
\* name is redefined in another dimension.
Redefinable == {"foot"}

SetDimension(r, n, d) ==
  /\ Idle
  /\ dimtab[r][n] # d
  /\ dimtab' = [dimtab EXCEPT ![r][n] = d]
  /\ last' = [NoLast EXCEPT !.op = "define"]
  /\ UNCHANGED <<units, active_ctx, hist>>

\* with registry.context(name): the context is pushed on entry ...
EnableContexts(r, name) ==
  /\ Idle
  /\ Len(active_ctx[r]) < MaxCtx
  /\ active_ctx' = [active_ctx EXCEPT ![r] = Append(@, name)]
  /\ last' = [NoLast EXCEPT !.op = "enable_contexts"]
  /\ UNCHANGED <<units, dimtab, hist>>

\* ... and popped on exit.
DisableContexts(r) ==
  /\ Idle
  /\ Len(active_ctx[r]) > 0
  /\ active_ctx' = [active_ctx EXCEPT ![r] = SubSeq(@, 1, Len(@) - 1)]
  /\ last' = [NoLast EXCEPT !.op = "disable_contexts"]
  /\ UNCHANGED <<units, dimtab, hist>>

----------------------------------------------------------------------------

Init ==
  /\ units = <<>>
  /\ dimtab = [r \in Registries |-> DefaultTable]
  /\ active_ctx = [r \in Registries |-> <<>>]
  /\ hist = <<>>
  /\ last = NoLast

InitArgs ==
  {ContainerArg(c) : c \in SampleContainers}
    \cup {StrArg(t) : t \in Texts}
    \cup {UnitArg(j) : j \in 1..MaxUnits}
    \cup {NumArg(1), ObjectArg}

Construct == Idle /\ \E cls \in Registries, arg \in InitArgs : UnitInit(cls, arg)

\* A smaller choice of Units, for the operations that do not read much of
\* them.
FewInitArgs ==
  {ContainerArg(UC(1, 0, 0)), ContainerArg(UC(0, 0, 1))}
    \cup {UnitArg(j) : j \in 1..MaxUnits}

\* Units built around containers of their own only.
PlainInitArgs ==
  {ContainerArg(EmptyUC), ContainerArg(UC(1, 0, 0)), ContainerArg(UC(0, 0, 1))}

ConstructPlain == Idle /\ \E cls \in Registries, arg \in PlainInitArgs : UnitInit(cls, arg)

ConstructFew == Idle /\ \E cls \in Registries, arg \in FewInitArgs : UnitInit(cls, arg)

Redefine ==
  /\ Idle
  /\ \E r \in Registries, n \in Redefinable, d \in Dimensions : SetDimension(r, n, d)

Numbers == {0, 1, 2}

SampleQuantities == {Quantity(r, 2, 1, UC(1, 0, 0)) : r \in Registries}

\* The operands of the binary operations.
Operands ==
  {UnitArg(j) : j \in 1..MaxUnits}
    \cup {QuantityArg(q) : q \in SampleQuantities}
    \cup {NumArg(n) : n \in Numbers}
    \cup {StrArg("second"), StrArg("bogus"), ObjectArg,
          ContainerArg(UC(1, 0, 0)), DictArg(UC(0, 0, 1))}

\* The values a Unit is tested for compatibility with.
CompatOperands ==
  {UnitArg(j) : j \in 1..MaxUnits}
    \cup {QuantityArg(Quantity("ureg", 2, 1, UC(1, 0, 0))), NumArg(2),
          StrArg("second"), StrArg("bogus")}

\* The operands and keyword arguments of an elementwise operation.
ArrayOperands ==
  {UnitArg(j) : j \in 1..MaxUnits} \cup {NumArg(2), ArrayArg, UpcastArg}

SampleInputs ==
  {<<a>> : a \in ArrayOperands} \cup {<<a, b>> : a, b \in ArrayOperands}

SampleKwargs == {<<>>, <<ArrayArg>>, <<UpcastArg>>}

SampleContexts == {<<>>, <<"sp">>, <<"nope">>}

\* The calls client code makes, with their arguments.
CopyCall == Idle /\ \E i \in 1..MaxUnits : Copy(i)

DeepCopyCall == Idle /\ \E i \in 1..MaxUnits : DeepCopy(i)

SetUsedCall == Idle /\ \E i \in 1..MaxUnits : SetUsed(i)

DimensionalityCall == Idle /\ \E i \in 1..MaxUnits : Dimensionality(i)

DimensionlessCall == Idle /\ \E i \in 1..MaxUnits : Dimensionless(i)

IsCompatibleWithCall ==
  /\ Idle
  /\ \E i \in 1..MaxUnits, arg \in CompatOperands, ctxs \in SampleContexts :
       IsCompatibleWith(i, arg, ctxs)

EnableContextsCall ==
  Idle /\ \E r \in Registries, name \in Contexts : EnableContexts(r, name)

DisableContextsCall == Idle /\ \E r \in Registries : DisableContexts(r)

EqCall ==
  Idle /\ \E i \in 1..MaxUnits, arg \in Operands, answer \in BOOLEAN : Eq(i, arg, answer)

NeCall ==
  Idle /\ \E i \in 1..MaxUnits, arg \in Operands, answer \in BOOLEAN : Ne(i, arg, answer)

HashCall == Idle /\ \E i \in 1..MaxUnits : Hash(i)

MulCall == Idle /\ \E i \in 1..MaxUnits, arg \in Operands : Mul(i, arg)

TrueDivCall == Idle /\ \E i \in 1..MaxUnits, arg \in Operands : TrueDiv(i, arg)

RTrueDivCall == Idle /\ \E i \in 1..MaxUnits, arg \in Operands : RTrueDiv(i, arg)

CompareCall ==
  /\ Idle
  /\ \E i \in 1..MaxUnits, arg \in Operands, op \in Orderings, answer \in CompareAnswers :
       Compare(i, arg, op, answer)

ArrayUfuncCall ==
  /\ Idle
  /\ \E i \in 1..MaxUnits, ufunc \in Ufuncs, method \in Methods,
        inputs \in SampleInputs, kwargs \in SampleKwargs :
       ArrayUfunc(i, ufunc, method, inputs, kwargs)

FromCall ==
  Idle /\ \E i \in 1..MaxUnits, arg \in Operands, strict \in BOOLEAN : From_(i, arg, strict)

MFromCall ==
  Idle /\ \E i \in 1..MaxUnits, arg \in Operands, strict \in BOOLEAN : MFrom(i, arg, strict)

\* Reads of the cached dimensionality while the registry's tables change.
NextDim ==
  \/ Return
  \/ Construct
  \/ DimensionalityCall
  \/ DimensionlessCall
  \/ CopyCall
  \/ Redefine

SpecDim == Init /\ [][NextDim]_vars

\* Copies and constructions from another Unit.
NextCopy ==
  \/ Return
  \/ Construct
  \/ CopyCall
  \/ DeepCopyCall
  \/ SetUsedCall
  \/ DimensionalityCall

SpecCopy == Init /\ [][NextCopy]_vars

\* Compatibility tests while contexts are entered and left.
NextCompat ==
  \/ Return
  \/ ConstructPlain
  \/ IsCompatibleWithCall
  \/ EnableContextsCall
  \/ DisableContextsCall

SpecCompat == Init /\ [][NextCompat]_vars

\* Equality and hashing of Units in every state of their flags and caches.
NextEq ==
  \/ Return
  \/ ConstructFew
  \/ SetUsedCall
  \/ DimensionalityCall
  \/ EqCall
  \/ NeCall
  \/ HashCall

SpecEq == Init /\ [][NextEq]_vars

\* The operators, the array interception and the conversion helpers.
NextOps ==
  \/ Return
  \/ ConstructFew
  \/ MulCall
  \/ TrueDivCall
  \/ RTrueDivCall
  \/ CompareCall
  \/ ArrayUfuncCall
  \/ FromCall
  \/ MFromCall

SpecOps == Init /\ [][NextOps]_vars

Next == NextDim \/ NextCopy \/ NextCompat \/ NextEq \/ NextOps

Spec == Init /\ [][Next]_vars

----------------------------------------------------------------------------
(* C1: the registry's dimension-reduction function is invoked at most once  *)
(* per Unit instance, by the first read of dimensionality/dimensionless,   *)
(* and every read returns the value of the first read, whatever the        *)
(* registry's dimension tables have become.                                *)
C1_ComputedOnce ==
  /\ \A i \in 1..Len(units) :
        /\ hist[i].calls <= 1
        /\ hist[i].calls = hist[i].reads
  /\ last.op \in {"dimensionality", "dimensionless"} =>
        /\ last.dim = hist[last.self].first
        /\ last.regcalls = (IF last.cached THEN 0 ELSE 1)
        /\ last.cached => units[last.self].dim = hist[last.self].first

\* A cached read that returns the first value although the registry would
\* now compute another one.
C1_Witness ==
  /\ last.op = "dimensionality"
  /\ last.cached
  /\ last.dim # GetDimensionality(dimtab[units[last.self].cls],
                                   units[last.self].units)

(* C7 as stated: Unit(C).dimensionless is true iff C is empty.             *)
C7_Original ==
  last.op = "dimensionless" =>
    (last.ret = "True" <=> units[last.self].units = EmptyUC)

(* C7 amended: dimensionless is true iff the dimensionality the registry   *)
(* computed at the first read is empty; a Unit with an empty container     *)
(* always reports dimensionless, and a Unit with a non-empty container     *)
(* reports dimensionless too when its exponents cancel dimension-wise.     *)
C7_Dimensionless ==
  last.op = "dimensionless" =>
    /\ last.ret = "True" <=> ~Truthy(hist[last.self].first)
    /\ units[last.self].units = EmptyUC => last.ret = "True"

\* meter/foot: a non-empty container, yet dimensionless.
C7_Witness ==
  /\ last.op = "dimensionless"
  /\ last.ret = "True"
  /\ units[last.self].units # EmptyUC

(* C2 as stated: after a shallow copy, a deep copy or Unit(unit) the new   *)
(* Unit has the original's class, an equal container, the same debug-used  *)
(* flag and a container object of its own.                                 *)
IsCopyCall ==
  /\ last.ret = "Unit"
  /\ \/ last.op \in {"__copy__", "__deepcopy__"}
     \/ last.op = "__init__" /\ last.arg.kind = "Unit"

CopySource == IF last.op = "__init__" THEN last.arg.id ELSE last.self

C2_Original ==
  IsCopyCall =>
    LET s == units[CopySource]
        n == units[last.new]
    IN /\ n.cls = s.cls
       /\ n.units = s.units
       /\ n.used = s.used
       /\ n.cid # s.cid

(* C2 amended: a shallow and a deep copy have the original's class, an     *)
(* equal container and the same debug-used flag; Unit(unit) has an equal   *)
(* container, the class that was called and a cleared debug-used flag;     *)
(* only the deep copy owns a container object of its own, the shallow copy *)
(* and Unit(unit) hold the original's container object.                    *)
C2_Copies ==
  IsCopyCall =>
    LET s == units[CopySource]
        n == units[last.new]
    IN /\ n.units = s.units
       /\ ~n.hasdim
       /\ last.op \in {"__copy__", "__deepcopy__"} =>
             n.cls = s.cls /\ n.used = s.used
       /\ last.op = "__init__" => ~n.used
       /\ last.op = "__deepcopy__" =>
             \A j \in 1..Len(units) : j # last.new => units[j].cid # n.cid
       /\ last.op \in {"__copy__", "__init__"} => n.cid = s.cid

\* A shallow copy of a Unit whose debug-used flag is set.
C2_Witness ==
  /\ last.op = "__copy__"
  /\ units[last.self].used
  /\ units[last.new].used

(* C3: called with no explicit context while the registry's active-context *)
(* stack is empty, is_compatible_with constructs no Quantity and attempts  *)
(* no conversion; it answers, for a Unit or a Quantity, whether the two    *)
(* dimensionalities are equal; for a text the registry parses, whether     *)
(* self's dimensionality equals that of the parsed unit; for any other     *)
(* value (a plain number), whether self is dimensionless.                  *)
C3_FastPath ==
  (/\ last.op = "is_compatible_with"
   /\ last.ctxs = <<>>
   /\ active_ctx[units[last.self].cls] = <<>>) =>
    LET u == units[last.self]
        arg == last.arg
    IN /\ last.qctor = 0
       /\ last.conv = 0
       /\ u.hasdim
       /\ arg.kind = "Unit" =>
            /\ units[arg.id].hasdim
            /\ last.ret = "True" <=> u.dim = units[arg.id].dim
            /\ last.ret = "False" <=> u.dim # units[arg.id].dim
       /\ arg.kind = "Quantity" =>
            /\ last.ret = "True" <=>
                 u.dim = GetDimensionality(dimtab[arg.q.cls], arg.q.units)
            /\ last.ret \in {"True", "False"}
       /\ (arg.kind = "str" /\ ParseOk(arg.text)) =>
            /\ last.ret = "True" <=>
                 u.dim = GetDimensionality(dimtab[u.cls], ParseUnits(arg.text))
            /\ last.ret \in {"True", "False"}
       /\ arg.kind \notin {"Unit", "Quantity", "str"} =>
            /\ last.ret = "True" <=> u.dim = NoDim
            /\ last.ret \in {"True", "False"}

\* Unit('').is_compatible_with(2): dimensionless against a plain number.
C3_Witness ==
  /\ last.op = "is_compatible_with"
  /\ last.ctxs = <<>>
  /\ active_ctx[units[last.self].cls] = <<>>
  /\ last.arg.kind = "num"
  /\ last.ret = "True"

(* C4: called with an explicit context, or while the registry's            *)
(* active-context stack is not empty, is_compatible_with decides by        *)
(* converting Quantity(1, self) into other under those contexts, whatever  *)
(* other is: True when the conversion succeeds, False when it raises       *)
(* DimensionalityError, and any other error of the conversion reaches the  *)
(* caller; the call leaves the active-context stack as it was.             *)
C4_Decided ==
  (/\ last.op = "is_compatible_with"
   /\ (last.ctxs # <<>> \/ active_ctx[units[last.self].cls] # <<>>)) =>
    LET u == units[last.self]
        one == Quantity(u.cls, 1, 1, u.units)
        out == ToOutcome(u.cls, one, last.arg, last.ctxs)
    IN /\ last.q = one
       /\ last.qctor = 1
       /\ last.conv = 1
       /\ out = "ok" => last.ret = "True"
       /\ out = "raise:DimensionalityError" => last.ret = "False"
       /\ out \notin {"ok", "raise:DimensionalityError"} => last.ret = out

C4_StackKept ==
  last'.op = "is_compatible_with" => active_ctx' = active_ctx

C4_ByConversion == []C4_Decided /\ [][C4_StackKept]_vars

\* meter is compatible with second under the "sp" context, although the
\* dimensionalities differ.
C4_Witness ==
  /\ last.op = "is_compatible_with"
  /\ last.ctxs = <<"sp">>
  /\ last.arg.kind = "Unit"
  /\ last.ret = "True"
  /\ GetDimensionality(dimtab[units[last.self].cls], units[last.self].units)
       # GetDimensionality(dimtab[units[last.self].cls], units[last.arg.id].units)

(* C5: for Units A and B of one registry-bound class, A * B and A / B are  *)
(* new Units of that class whose containers are the exponent-wise sum and  *)
(* difference of A's and B's containers; A and B are left unchanged.       *)
C5_Result ==
  (last.op \in {"__mul__", "__truediv__"} /\ last.arg.kind = "Unit") =>
    LET a == units[last.self]
        b == units[last.arg.id]
    IN /\ a.cls = b.cls
       /\ last.ret = "Unit"
       /\ last.runit.cls = a.cls
       /\ \A j \in 1..Len(units) : units[j].cid # last.runit.cid
       /\ \A n \in UnitNames :
            last.runit.units[n] =
              IF last.op = "__mul__" THEN a.units[n] + b.units[n]
              ELSE a.units[n] - b.units[n]

C5_Frame ==
  last'.op \in {"__mul__", "__truediv__"} => units' = units

C5_MulDiv == []C5_Result /\ [][C5_Frame]_vars

\* meter / second
C5_Witness ==
  /\ last.op = "__truediv__"
  /\ last.arg.kind = "Unit"
  /\ last.runit.units = UC(1, 0, -1)

(* C6: for Units U and V of one registry-bound class, U == V iff their     *)
(* containers are equal, U != V is its negation, and equal Units have      *)
(* equal hashes, whatever the identity of the objects, their debug-used    *)
(* flags and the state of their dimensionality caches.                     *)
C6_Equality ==
  /\ (last.op \in {"__eq__", "__ne__"} /\ last.arg.kind = "Unit") =>
       LET a == units[last.self]
           b == units[last.arg.id]
       IN /\ a.cls = b.cls
          /\ last.ret \in {"True", "False"}
          /\ last.op = "__eq__" => (last.ret = "True" <=> a.units = b.units)
          /\ last.op = "__ne__" => (last.ret = "True" <=> a.units # b.units)
          /\ (last.op = "__eq__" /\ last.ret = "True") => UnitHash(a) = UnitHash(b)
  /\ last.op = "__hash__" => last.hash = UCHash(units[last.self].units)

\* Two distinct objects holding distinct container objects, one marked used
\* and with its dimensionality cached, the other not: equal all the same.
C6_Witness ==
  /\ last.op = "__eq__"
  /\ last.arg.kind = "Unit"
  /\ last.ret = "True"
  /\ last.self # last.arg.id
  /\ units[last.self].cid # units[last.arg.id].cid
  /\ units[last.self].used /\ ~units[last.arg.id].used
  /\ units[last.self].hasdim /\ ~units[last.arg.id].hasdim

(* C8: __array_ufunc__ returns NotImplemented, constructing no Quantity    *)
(* and redispatching nothing, when the method is not "__call__", or an     *)
(* operand (positional or keyword) is of an upcast type, or the operation  *)
(* is none of multiply, true_divide, divide, floor_divide; otherwise it    *)
(* redispatches the same operation once, every occurrence of self among    *)
(* the positional operands replaced by Quantity(1, self), the other        *)
(* operands and the keyword arguments unchanged and in order.              *)
C8_Interception ==
  last.op = "__array_ufunc__" =>
    LET u == units[last.self]
        declines ==
          \/ last.method # "__call__"
          \/ \E arg \in Range(last.inputs) \cup Range(last.kwargs) : arg.kind = "DataArray"
          \/ last.ufunc \notin {"multiply", "true_divide", "divide", "floor_divide"}
    IN /\ declines =>
            /\ last.ret = "NotImplemented"
            /\ last.qctor = 0
            /\ last.calls = <<>>
       /\ ~declines =>
            /\ last.ret = "dispatched"
            /\ Len(last.calls) = 1
            /\ last.calls[1].ufunc = last.ufunc
            /\ last.calls[1].kwargs = last.kwargs
            /\ Len(last.calls[1].inputs) = Len(last.inputs)
            /\ \A k \in DOMAIN last.inputs :
                 last.calls[1].inputs[k] =
                   IF last.inputs[k].kind = "Unit" /\ last.inputs[k].id = last.self
                   THEN QuantityArg(Quantity(u.cls, 1, 1, u.units))
                   ELSE last.inputs[k]

\* multiply(self, 2) redispatched as multiply(Quantity(1, self), 2).
C8_Witness ==
  /\ last.op = "__array_ufunc__"
  /\ last.ufunc = "multiply"
  /\ last.inputs = <<UnitArg(last.self), NumArg(2)>>
  /\ last.ret = "dispatched"
  /\ last.calls[1].inputs[1].kind = "Quantity"

(* C9 as stated: NotImplemented is returned only by reverse division and   *)
(* by array interception; every ordering comparison constructs             *)
(* Quantity(1, self) and yields what the comparison delegated to that      *)
(* quantity yields.                                                        *)
C9_Original ==
  /\ last.ret = "NotImplemented" => last.op \in {"__rtruediv__", "__array_ufunc__"}
  /\ last.op \in Orderings =>
       /\ last.qctor >= 1
       /\ last.deleg = "Quantity.compare"
       /\ last.ret = last.answer

(* C9 amended: NotImplemented is returned by reverse division, by array    *)
(* interception and by an ordering comparison whose operand is neither a   *)
(* number nor a Unit, UnitsContainer or dict.  Every ordering comparison   *)
(* constructs Quantity(1, self); for a number it yields what the           *)
(* quantity's comparison with the number yields, for a Unit,               *)
(* UnitsContainer or dict what its comparison with Quantity(1, other)      *)
(* yields, so that every failure in those cases is the delegated           *)
(* comparison's.                                                           *)
C9_Ordering ==
  /\ last.ret = "NotImplemented" =>
       last.op \in {"__rtruediv__", "__array_ufunc__"} \cup Orderings
  /\ last.op \in Orderings =>
       LET u == units[last.self]
           arg == last.arg
       IN /\ last.q = Quantity(u.cls, 1, 1, u.units)
          /\ last.qctor >= 1
          /\ arg.kind = "num" =>
               /\ last.deleg = "Quantity.compare"
               /\ last.q2 = NoQuantity
               /\ last.ret = last.answer
          /\ arg.kind \in {"Unit", "UnitsContainer", "dict"} =>
               /\ last.deleg = "Quantity.compare"
               /\ last.qctor = 2
               /\ last.q2 = Quantity(u.cls, 1, 1, TargetUnits(arg))
               /\ last.ret = last.answer
          /\ arg.kind \notin {"num", "Unit", "UnitsContainer", "dict"} =>
               /\ last.ret = "NotImplemented"
               /\ last.deleg = "none"

\* An ordering comparison of two Units that fails in the delegated
\* comparison.
C9_Witness ==
  /\ last.op = "__lt__"
  /\ last.arg.kind = "Unit"
  /\ last.qctor = 2
  /\ last.ret = "raise:DimensionalityError"

====
